---- MODULE Spec2Model ----
(***************************************************************************)
(* A model of gozer (src/gozer.go): the filename parser, the header-block  *)
(* parser, the content renderer, the content walk that fills the page      *)
(* registry, and the build coordinator with its per-page goroutines.       *)
(*                                                                         *)
(* Strings are sequences of one-character strings, so that the byte-level  *)
(* operations of the code (TrimSuffix, Index, slicing by length) are       *)
(* modelled by what they do.                                               *)
(***************************************************************************)
EXTENDS Integers, Sequences, FiniteSets, TLC

VARIABLES
    pc,        \* position of the coordinator (or of the function under check)
    inp,       \* the input of the function under check
    out,       \* what the function returned
    fsys,      \* the content tree on disk
    site,      \* the Site of the build in progress
    walk,      \* what the last readContent did
    units,     \* the per-page goroutines of buildSite
    wg,        \* the WaitGroup counter
    nextPage,  \* the index the loop over site.pages is at
    buildDir   \* the files of build/

vars == <<pc, inp, out, fsys, site, walk, units, wg, nextPage, buildDir>>

buildVars == <<fsys, site, walk, units, wg, nextPage, buildDir>>

(***************************************************************************)
(* String literals                                                         *)
(***************************************************************************)
sSlash == <<"/">>
sDot == <<".">>
sDotDot == <<".", ".">>
sContent == <<"c", "o", "n", "t", "e", "n", "t">>
sContentSlash == <<"c", "o", "n", "t", "e", "n", "t", "/">>
sMd == <<".", "m", "d">>
sHtml == <<".", "h", "t", "m", "l">>
sIndex == <<"i", "n", "d", "e", "x">>
sPage == <<"p", "a", "g", "e">>
sBuild == <<"b", "u", "i", "l", "d">>
sIndexHtml == <<"i", "n", "d", "e", "x", ".", "h", "t", "m", "l">>
frontMatter == <<"+", "+", "+">>
Separator == "/"

(***************************************************************************)
(* package strings / bytes                                                 *)
(***************************************************************************)
HasPrefix(s, p) == Len(s) >= Len(p) /\ SubSeq(s, 1, Len(p)) = p

HasSuffix(s, x) == Len(s) >= Len(x) /\ SubSeq(s, Len(s) - Len(x) + 1, Len(s)) = x

TrimPrefix(s, p) == IF HasPrefix(s, p) THEN SubSeq(s, Len(p) + 1, Len(s)) ELSE s

TrimSuffix(s, x) == IF HasSuffix(s, x) THEN SubSeq(s, 1, Len(s) - Len(x)) ELSE s

\* bytes.Index: the 0-based offset of the first occurrence of sep, or -1
Index(s, sep) ==
    LET hits == {i \in 0..(Len(s) - Len(sep)) : SubSeq(s, i + 1, i + Len(sep)) = sep}
    IN  IF hits = {} THEN -1 ELSE CHOOSE i \in hits : \A j \in hits : i <= j

\* s[from:] with a 0-based offset
SliceFrom(s, from) == SubSeq(s, from + 1, Len(s))

RECURSIVE Split(_, _)
Split(s, c) ==
    LET i == Index(s, <<c>>)
    IN  IF i = -1 THEN <<s>>
        ELSE <<SubSeq(s, 1, i)>> \o Split(SliceFrom(s, i + 1), c)

RECURSIVE JoinSegs(_)
JoinSegs(segs) ==
    IF segs = <<>> THEN <<>>
    ELSE IF Len(segs) = 1 THEN segs[1]
    ELSE segs[1] \o sSlash \o JoinSegs(Tail(segs))

(***************************************************************************)
(* package path/filepath (a build for a system whose separator is '/')     *)
(***************************************************************************)
ToSlash(path) == [i \in DOMAIN path |-> IF path[i] = Separator THEN "/" ELSE path[i]]

RECURSIVE StripTrailingSlashes(_)
StripTrailingSlashes(path) ==
    IF path # <<>> /\ path[Len(path)] = Separator
    THEN StripTrailingSlashes(SubSeq(path, 1, Len(path) - 1))
    ELSE path

Base(path) ==
    IF path = <<>> THEN sDot
    ELSE LET p == StripTrailingSlashes(path)
             segs == Split(p, Separator)
             last == segs[Len(segs)]
         IN  IF p = <<>> THEN sSlash ELSE last

\* the stack of path elements Clean keeps: "." and empty elements are dropped,
\* ".." removes the element before it
RECURSIVE CleanSegs(_, _, _)
CleanSegs(segs, acc, rooted) ==
    IF segs = <<>> THEN acc
    ELSE LET h == segs[1]
             t == Tail(segs)
         IN  IF h = <<>> \/ h = sDot THEN CleanSegs(t, acc, rooted)
             ELSE IF h = sDotDot
                  THEN IF acc # <<>> /\ acc[Len(acc)] # sDotDot
                       THEN CleanSegs(t, SubSeq(acc, 1, Len(acc) - 1), rooted)
                       ELSE IF rooted THEN CleanSegs(t, acc, rooted)
                            ELSE CleanSegs(t, Append(acc, h), rooted)
                  ELSE CleanSegs(t, Append(acc, h), rooted)

Clean(path) ==
    IF path = <<>> THEN sDot
    ELSE LET rooted == path[1] = Separator
             body == JoinSegs(CleanSegs(Split(path, Separator), <<>>, rooted))
             res == IF rooted THEN sSlash \o body ELSE body
         IN  IF res = <<>> THEN sDot ELSE res

\* filepath.Join: the non-empty elements joined by the separator, then Clean
Join(elems) ==
    LET ne == SelectSeq(elems, LAMBDA e : e # <<>>)
    IN  IF ne = <<>> THEN <<>> ELSE Clean(JoinSegs(ne))

(***************************************************************************)
(* package time: a date is the number yyyymmdd; the zero Time is January   *)
(* 1 of year 1                                                             *)
(***************************************************************************)
ZeroTime == 10101

IsZero(t) == t = ZeroTime

After(t, u) == t > u

Digits == <<"0", "1", "2", "3", "4", "5", "6", "7", "8", "9">>

IsDigit(c) == \E i \in 1..10 : Digits[i] = c

DigitVal(c) == (CHOOSE i \in 1..10 : Digits[i] = c) - 1

IsLeap(y) == y % 4 = 0 /\ (y % 100 # 0 \/ y % 400 = 0)

DaysIn(m, y) ==
    IF m = 2 THEN (IF IsLeap(y) THEN 29 ELSE 28)
    ELSE IF m \in {4, 6, 9, 11} THEN 30 ELSE 31

\* time.Parse("2006-01-02", s) for a 10-byte s
TimeParse(s) ==
    IF /\ Len(s) = 10
       /\ \A i \in {1, 2, 3, 4, 6, 7, 9, 10} : IsDigit(s[i])
       /\ s[5] = "-" /\ s[8] = "-"
    THEN LET y == DigitVal(s[1]) * 1000 + DigitVal(s[2]) * 100
                  + DigitVal(s[3]) * 10 + DigitVal(s[4])
             m == DigitVal(s[6]) * 10 + DigitVal(s[7])
             d == DigitVal(s[9]) * 10 + DigitVal(s[10])
         IN  IF m \in 1..12 /\ d >= 1 /\ d <= DaysIn(m, y)
             THEN [ok |-> TRUE, t |-> y * 10000 + m * 100 + d]
             ELSE [ok |-> FALSE, t |-> ZeroTime]
    ELSE [ok |-> FALSE, t |-> ZeroTime]

(***************************************************************************)
(* parseFilename                                                           *)
(***************************************************************************)
\* the part of parseFilename after the trims, for the trimmed path, its last
\* element and what time.Parse makes of the first 10 bytes of the element
parseFilenameOf(path, filename, parsed) ==
    IF /\ Len(filename) > 11
       /\ filename[5] = "-"
       /\ filename[8] = "-"
       /\ filename[11] = "-"
       /\ parsed.ok
    THEN [urlPath |-> SubSeq(path, 1, Len(path) - Len(filename))
                      \o SubSeq(filename, 12, Len(filename)) \o sSlash,
          date |-> parsed.t]
    ELSE [urlPath |-> IF path # <<>> /\ ~HasSuffix(path, sSlash)
                      THEN path \o sSlash ELSE path,
          date |-> ZeroTime]

parseFilenameBase(path, filename) ==
    parseFilenameOf(path, filename, TimeParse(SubSeq(filename, 1, 10)))

parseFilenameTrimmed(path) == parseFilenameBase(path, Base(path))

parseFilename(path, rootDir) ==
    parseFilenameTrimmed(
        TrimSuffix(
            TrimSuffix(
                TrimSuffix(
                    TrimPrefix(ToSlash(path), rootDir \o sContentSlash),
                    sMd),
                sHtml),
            sIndex))

(***************************************************************************)
(* Page and Site                                                           *)
(***************************************************************************)
sDefaultHtml == "default.html"

NewSite(rootPath, siteUrl) ==
    [pages |-> <<>>, posts |-> <<>>, SiteUrl |-> siteUrl, RootDir |-> rootPath]

(***************************************************************************)
(* Header blocks.  A byte of a file other than '+' stands for one line of  *)
(* the key/value document: "t" sets title, "d" sets DatePublished, "u"     *)
(* sets UrlPath, "b" sets a key no field of Page matches.  A '+' inside    *)
(* the block is not a key/value line, and a key set twice is an error of   *)
(* the decoder.  The decoder matches keys to the fields of Page by name,   *)
(* Page declaring no other key names.                                      *)
(***************************************************************************)
tomlTitle == <<"T">>
tomlUrlPath == <<"x", "/">>
tomlDate == TimeParse(<<"2", "0", "2", "0", "-", "0", "1", "-", "0", "1">>).t

RECURSIVE tomlApply(_, _)
tomlApply(block, p) ==
    IF block = <<>> THEN p
    ELSE LET k == block[1]
             q == IF k = "t" THEN [p EXCEPT !.Title = tomlTitle]
                  ELSE IF k = "d" THEN [p EXCEPT !.DatePublished = tomlDate]
                  ELSE IF k = "u" THEN [p EXCEPT !.UrlPath = tomlUrlPath]
                  ELSE p
         IN  tomlApply(Tail(block), q)

tomlUnmarshal(block, p) ==
    IF \/ \E i \in DOMAIN block : block[i] = "+"
       \/ \E i, j \in DOMAIN block : i # j /\ block[i] = block[j]
    THEN [err |-> TRUE, page |-> p]
    ELSE [err |-> FALSE, page |-> tomlApply(block, p)]

BufSize == 1024

Min(a, b) == IF a < b THEN a ELSE b

\* parseFrontMatter from the test of the prefix on, for the bytes read
parseFrontMatterBuf(p, buf, pos) ==
    IF buf = <<>> THEN [err |-> TRUE, page |-> p]
    ELSE IF ~HasPrefix(buf, frontMatter) THEN [err |-> FALSE, page |-> p]
    ELSE IF pos = -1 THEN [err |-> TRUE, page |-> p]
    ELSE tomlUnmarshal(SubSeq(buf, 4, 3 + pos), p)

parseFrontMatterRead(p, buf) ==
    parseFrontMatterBuf(p, buf, Index(SliceFrom(buf, 3), frontMatter))

\* parseFrontMatter(p) on a file holding `content`: the error and the page.
\* Read returns io.EOF for an empty file.
parseFrontMatter(p, content) ==
    parseFrontMatterRead(p, SubSeq(content, 1, Min(Len(content), BufSize)))

\* the Markdown converter is a function of the bytes it is given
mdConvert(text) == [markdown |-> text]

\* ParseContent after the front matter is skipped
ParseContentBody(p, fileContent) ==
    IF HasSuffix(p.Filepath, sHtml)
    THEN [err |-> FALSE, body |-> fileContent]
    ELSE [err |-> FALSE, body |-> mdConvert(fileContent)]

ParseContentSkip(p, content, pos) ==
    ParseContentBody(p, IF Len(content) > 6 /\ pos > -1
                        THEN SliceFrom(content, pos + 6)
                        ELSE content)

\* Page.ParseContent on a file holding `content`
ParseContent(p, content) ==
    ParseContentSkip(p, content, Index(SliceFrom(content, 3), frontMatter))

\* AddPageFromFile after parseFrontMatter
AddPageAppend(s, fm) ==
    IF fm.err THEN [err |-> TRUE, site |-> s]
    ELSE [err |-> FALSE,
          site |-> [s EXCEPT
              !.pages = Append(@, fm.page),
              !.posts = IF ~IsZero(fm.page.DatePublished)
                        THEN Append(@, fm.page) ELSE @]]

\* AddPageFromFile from the Page literal on
AddPageParsed(s, file, f, pf, seg) ==
    AddPageAppend(s, parseFrontMatter(
        [Filepath |-> file,
         UrlPath |-> pf.urlPath,
         Permalink |-> s.SiteUrl \o pf.urlPath,
         DatePublished |-> pf.date,
         DateModified |-> f.mtime,
         Template |-> sDefaultHtml,
         Category |-> IF HasSuffix(seg, sMd) THEN sPage ELSE seg,
         Title |-> <<>>,
         Tags |-> <<>>],
        f.content))

\* Site.AddPageFromFile(file) where the file holds `f.content`, was last
\* modified at `f.mtime`, and `f.exists` tells whether Stat finds it
AddPageFromFile(s, file, f) ==
    IF ~f.exists THEN [err |-> TRUE, site |-> s]
    ELSE AddPageParsed(s, file, f, parseFilename(file, s.RootDir),
                       Split(file, "/")[2])

\* the coordinator's state where no build is modelled
NoBuild ==
    /\ fsys = [universe |-> "none", present |-> {}, unreadable |-> {}]
    /\ site = NewSite(<<>>, <<>>)
    /\ walk = [ran |-> FALSE]
    /\ units = <<>>
    /\ wg = 0
    /\ nextPage = 0
    /\ buildDir = {}

(***************************************************************************)
(* The filename parser and the registration of one file, on bounded paths  *)
(***************************************************************************)
sSiteUrl == <<"h", "/">>
sSite == <<"s", "i", "t", "e">>
sBlogSlash == <<"b", "l", "o", "g", "/">>
sDate1 == <<"2", "0", "2", "3", "-", "0", "5", "-", "0", "1">>
sDate2 == <<"2", "0", "2", "4", "-", "0", "2", "-", "2", "9">>
sBadDate == <<"2", "0", "2", "3", "-", "0", "2", "-", "3", "0">>
sDash == <<"-">>
sAbout == <<"a", "b", "o", "u", "t">>
sReindex == <<"r", "e", "i", "n", "d", "e", "x">>
sHi == <<"h", "i">>
sFoo == <<"f", "o", "o">>

ParseRoots == {<<>>, sSite, sSite \o sSlash}

ParseDirs == {<<>>, sBlogSlash, sDate1 \o sDash \o sFoo \o sSlash}

\* file names that carry a date: <<date, slug>>
DatedNames == {<<sDate1, sHi>>, <<sDate2, sHi>>, <<sDate1, sIndex>>}

PlainNames == {sAbout, sIndex, sReindex, sBadDate \o sDash \o sHi, sDate1 \o sDash}

ParseExts == {sMd, sHtml}

PlainFile == [exists |-> TRUE, mtime |-> 1, content |-> <<"b">>]

\* the path the walk of filepath.Join(root, "content") hands to the callback
WalkPath(root, rel) == Join(<<Join(<<root, sContent>>), rel>>)

ParseInit ==
    /\ pc = "parse"
    /\ NoBuild
    /\ out = [op |-> "none"]
    /\ \E root \in ParseRoots, dir \in ParseDirs, ext \in ParseExts :
          \/ \E dn \in DatedNames :
                inp = [root |-> root, dir |-> dir, name |-> dn[1] \o sDash \o dn[2],
                       ext |-> ext, dated |-> TRUE, date |-> TimeParse(dn[1]).t,
                       slug |-> dn[2],
                       file |-> WalkPath(root, dir \o dn[1] \o sDash \o dn[2] \o ext)]
          \/ \E n \in PlainNames :
                inp = [root |-> root, dir |-> dir, name |-> n,
                       ext |-> ext, dated |-> FALSE, date |-> ZeroTime,
                       slug |-> <<>>,
                       file |-> WalkPath(root, dir \o n \o ext)]

CallParseFilename ==
    /\ pc = "parse"
    /\ pc' = "parsed"
    /\ out' = [op |-> "parseFilename", res |-> parseFilename(inp.file, inp.root)]
    /\ UNCHANGED <<inp, buildVars>>

CallAddPageFromFile ==
    /\ pc = "parse"
    /\ pc' = "added"
    /\ out' = [op |-> "AddPageFromFile",
               res |-> AddPageFromFile(NewSite(inp.root, sSiteUrl), inp.file, PlainFile)]
    /\ UNCHANGED <<inp, buildVars>>

ParseNext == CallParseFilename \/ CallAddPageFromFile

SpecParse == ParseInit /\ [][ParseNext]_vars

\* the path of the input below the content root
RelPath == inp.dir \o inp.name \o inp.ext

\* C7: a file name YYYY-MM-DD-slug with a valid date yields that date and the
\* directory part followed by slug and "/"; any other path yields no date and
\* a urlPath that keeps the file name segment and is empty or ends in "/"
C7_ParseFilenameContract ==
    (pc = "parsed" /\ inp.root = <<>>) =>
        IF inp.dated
        THEN /\ out.res.date = inp.date
             /\ out.res.urlPath = inp.dir \o inp.slug \o sSlash
        ELSE /\ out.res.date = ZeroTime
             /\ inp.name # sIndex => out.res.urlPath = inp.dir \o inp.name \o sSlash
             /\ out.res.urlPath = <<>> \/ HasSuffix(out.res.urlPath, sSlash)

\* C8: for every project root the default category is the first path segment
\* below the content root ("page" for a Markdown file directly in it), and the
\* urlPath is the one the path below the content root gives
C8_CategoryAndUrlPathRelativeToContentRoot ==
    (pc = "added" /\ ~out.res.err) =>
        LET p == out.res.site.pages[1]
        IN  /\ p.Category = IF inp.dir = <<>> /\ inp.ext = sMd THEN sPage
                            ELSE Split(RelPath, "/")[1]
            /\ p.UrlPath = parseFilename(sContentSlash \o RelPath, <<>>).urlPath

(***************************************************************************)
(* The header-block parser and the content renderer, on bounded files      *)
(***************************************************************************)
MaxFileLen == 7

FMBytes == {"+", "t", "d", "u"}

FMContents == UNION {[1..n -> FMBytes] : n \in 1..MaxFileLen}

FMFiles == {sContentSlash \o sAbout \o sMd,
            sContentSlash \o sDate1 \o sDash \o sHi \o sHtml}

FMInit ==
    /\ pc = "fm"
    /\ NoBuild
    /\ out = [op |-> "none"]
    /\ \E file \in FMFiles, content \in FMContents :
          inp = [file |-> file, root |-> <<>>,
                 f |-> [exists |-> TRUE, mtime |-> 1, content |-> content]]

\* the walk registers the file
FMRegister ==
    /\ pc = "fm"
    /\ pc' = "registered"
    /\ out' = [op |-> "AddPageFromFile",
               res |-> AddPageFromFile(NewSite(inp.root, sSiteUrl), inp.file, inp.f)]
    /\ UNCHANGED <<inp, buildVars>>

\* buildPage renders the registered page from the same file
FMParseContent ==
    /\ pc = "registered"
    /\ ~out.res.err
    /\ pc' = "rendered"
    /\ out' = [op |-> "ParseContent",
               res |-> out.res,
               content |-> ParseContent(out.res.site.pages[1], inp.f.content)]
    /\ UNCHANGED <<inp, buildVars>>

FMNext == FMRegister \/ FMParseContent

SpecFM == FMInit /\ [][FMNext]_vars

\* C5: a header block changes only title, tags, category and template: the
\* urlPath, permalink, sourcePath, dateModified and datePublished of a
\* registered page are those of discovery, and the page is a post only if
\* its file name encoded a date
C5_HeaderKeepsDiscoveryFields ==
    (pc = "registered" /\ ~out.res.err) =>
        LET p == out.res.site.pages[1]
            pf == parseFilename(inp.file, inp.root)
        IN  /\ p.UrlPath = pf.urlPath
            /\ p.Permalink = sSiteUrl \o pf.urlPath
            /\ p.Filepath = inp.file
            /\ p.DateModified = inp.f.mtime
            /\ p.DatePublished = pf.date
            /\ out.res.site.posts # <<>> => ~IsZero(pf.date)

\* the bytes the renderer converts or passes through
RenderedBytes == IF HasSuffix(inp.file, sHtml) THEN out.content.body
                 ELSE out.content.body.markdown

\* C9: the renderer cuts a header block exactly when the header-block parser
\* recognises one: a file not beginning with the delimiter is rendered whole,
\* a file beginning with it is rendered from the byte after the closing one
C9_RendererCutsWhatParserRecognises ==
    pc = "rendered" =>
        LET c == inp.f.content
            closing == Index(SliceFrom(c, 3), frontMatter)
        IN  /\ ~out.content.err
            /\ ~HasPrefix(c, frontMatter) => RenderedBytes = c
            /\ (HasPrefix(c, frontMatter) /\ closing # -1) =>
                  RenderedBytes = SliceFrom(c, 3 + closing + 3)

(***************************************************************************)
(* The content tree and filepath.WalkDir                                   *)
(***************************************************************************)
sBad == <<"b", "a", "d">>
sHeaderAndBody == <<"+", "+", "+", "t", "+", "+", "+", "b">>
sUnclosedHeader == <<"+", "+", "+", "t">>
sBody == <<"b">>

DirEntry(name, parent) ==
    [name |-> name, parent |-> parent, isDir |-> TRUE, content |-> <<>>]

FileEntry(name, parent, content) ==
    [name |-> name, parent |-> parent, isDir |-> FALSE, content |-> content]

MaxExtraFiles == 1

\* content/{2023-05-01-hi.md, bad.md, foo/index.md, foo.md, z1.md, ...};
\* entry 1 is the root
BuildTree ==
    << DirEntry(sContent, 0),
       FileEntry(sDate1 \o sDash \o sHi \o sMd, 1, sHeaderAndBody),
       FileEntry(sBad \o sMd, 1, sUnclosedHeader),
       DirEntry(sFoo, 1),
       FileEntry(sIndex \o sMd, 4, sBody),
       FileEntry(sFoo \o sMd, 1, sBody) >>
    \o [i \in 1..MaxExtraFiles |-> FileEntry(<<"z", Digits[i + 1]>> \o sMd, 1, sBody)]

\* content/{a,b}/YYYY-MM-DD-hi.md for two dates, and content/c/ with one
SortTree ==
    << DirEntry(sContent, 0),
       DirEntry(<<"a">>, 1),
       FileEntry(sDate1 \o sDash \o sHi \o sMd, 2, sBody),
       FileEntry(sDate2 \o sDash \o sHi \o sMd, 2, sBody),
       DirEntry(<<"b">>, 1),
       FileEntry(sDate1 \o sDash \o sHi \o sMd, 5, sBody),
       FileEntry(sDate2 \o sDash \o sHi \o sMd, 5, sBody),
       DirEntry(<<"c">>, 1),
       FileEntry(sDate1 \o sDash \o sHi \o sMd, 8, sBody),
       FileEntry(sDate2 \o sDash \o sHi \o sMd, 8, sBody) >>

Tree(fs) == IF fs.universe = "sort" THEN SortTree ELSE BuildTree

Ids(fs) == DOMAIN Tree(fs)

FileIds(fs) == {e \in Ids(fs) : ~Tree(fs)[e].isDir}

DirIds(fs) == {e \in Ids(fs) : Tree(fs)[e].isDir}

RECURSIVE EntryPath(_, _, _)
EntryPath(fs, root, e) ==
    IF Tree(fs)[e].parent = 0 THEN Join(<<root, Tree(fs)[e].name>>)
    ELSE Join(<<EntryPath(fs, root, Tree(fs)[e].parent), Tree(fs)[e].name>>)

\* the order of bytes, for the bytes file names are made of
ByteOrder ==
    << "+", "-", ".", "/", "0", "1", "2", "3", "4", "5", "6", "7", "8", "9",
       "a", "b", "c", "d", "e", "f", "g", "h", "i", "j", "k", "l", "m", "n",
       "o", "p", "q", "r", "s", "t", "u", "v", "w", "x", "y", "z" >>

ByteRank(c) == CHOOSE i \in DOMAIN ByteOrder : ByteOrder[i] = c

NameLess(a, b) ==
    \E k \in 1..(Min(Len(a), Len(b)) + 1) :
        /\ \A i \in 1..(k - 1) : a[i] = b[i]
        /\ \/ k > Len(a) /\ k <= Len(b)
           \/ k <= Len(a) /\ k <= Len(b) /\ ByteRank(a[k]) < ByteRank(b[k])

RECURSIVE SortByName(_, _)
SortByName(fs, set) ==
    IF set = {} THEN <<>>
    ELSE LET first == CHOOSE e \in set : \A o \in set \ {e} :
                          NameLess(Tree(fs)[e].name, Tree(fs)[o].name)
         IN  <<first>> \o SortByName(fs, set \ {first})

\* os.ReadDir: the entries of a directory, sorted by file name
ReadDir(fs, dir) ==
    SortByName(fs, {e \in fs.present : Tree(fs)[e].parent = dir})

\* os.Stat of an entry of the tree
StatFile(fs, e) ==
    [exists |-> e \in fs.present, mtime |-> 1, content |-> Tree(fs)[e].content]

walkFnFile(st, r) == [st EXCEPT !.s = r.site, !.err = r.err]

\* the callback readContent gives to WalkDir: st.s is the Site, st.err the
\* error that stopped the walk
walkFn(fs, e, st) ==
    IF Tree(fs)[e].isDir THEN st
    ELSE walkFnFile(st, AddPageFromFile(st.s, EntryPath(fs, st.s.RootDir, e),
                                        StatFile(fs, e)))

\* filepath.walkDir on entry e after the callback returned st1: for a
\* directory, ReadDir, and the callback again with ReadDir's error (it returns
\* nil for a directory, so the walk goes on with the entries ReadDir returned,
\* none when the directory cannot be opened); the entries to visit next and
\* the state
walkDirEntry(fs, e, rest, st1) ==
    IF st1.err \/ ~Tree(fs)[e].isDir THEN [stack |-> rest, st |-> st1]
    ELSE IF e \in fs.unreadable
         THEN [stack |-> rest, st |-> [st1 EXCEPT !.dirFailed = TRUE]]
         ELSE [stack |-> ReadDir(fs, e) \o rest, st |-> st1]

\* filepath.walkDir, with the entries still to visit kept on a stack; an
\* error of the callback ends the walk
RECURSIVE walkDir(_, _)
walkDir(fs, w) ==
    IF w.stack = <<>> \/ w.st.err THEN w.st
    ELSE walkDir(fs, walkDirEntry(fs, w.stack[1], Tail(w.stack),
                                  walkFn(fs, w.stack[1], w.st)))

(***************************************************************************)
(* sort.Slice: the result is sorted by less; the order of elements neither *)
(* of which is less than the other is not specified                        *)
(***************************************************************************)
RECURSIVE IndexOrders(_)
IndexOrders(S) ==
    IF S = {} THEN {<<>>}
    ELSE UNION {{<<i>> \o t : t \in IndexOrders(S \ {i})} : i \in S}

Perms(s) == {[k \in 1..Len(s) |-> s[o[k]]] : o \in IndexOrders(1..Len(s))}

postsLessAscending(a, b) == After(b.DatePublished, a.DatePublished)

postsLess(a, b) == After(a.DatePublished, b.DatePublished)

sortSlice(s) ==
    {t \in Perms(s) : \A i, j \in 1..Len(s) : i < j => ~postsLess(t[j], t[i])}

(***************************************************************************)
(* Site.readContent: the walk, then the sort of posts.  A content root     *)
(* that Lstat does not find makes WalkDir call the callback with a nil     *)
(* DirEntry, whose IsDir() call panics.                                    *)
(***************************************************************************)
readContentSorted(st) ==
    {[panic |-> FALSE, err |-> st.err, dirFailed |-> st.dirFailed,
      discovered |-> st.s.posts,
      site |-> [st.s EXCEPT !.posts = sorted]] : sorted \in sortSlice(st.s.posts)}

readContent(fs, s) ==
    IF 1 \notin fs.present
    THEN {[panic |-> TRUE, err |-> FALSE, dirFailed |-> TRUE,
           discovered |-> <<>>, site |-> s]}
    ELSE readContentSorted(
             walkDir(fs, [stack |-> <<1>>,
                          st |-> [s |-> s, err |-> FALSE, dirFailed |-> FALSE]]))

(***************************************************************************)
(* buildSite and its goroutines                                            *)
(***************************************************************************)
sSitemapXml == <<"s", "i", "t", "e", "m", "a", "p", ".", "x", "m", "l">>
sSitemapXsl == <<"s", "i", "t", "e", "m", "a", "p", ".", "x", "s", "l">>
sFeedXml == <<"f", "e", "e", "d", ".", "x", "m", "l">>
sStatic == <<"s", "t", "a", "t", "i", "c">>

\* the destination buildPage writes a page to
Dest(p) == Join(<<sBuild, p.UrlPath, sIndexHtml>>)

BuildInit ==
    /\ pc = "idle"
    /\ inp = [op |-> "none"]
    /\ out = [op |-> "none"]
    /\ \/ fsys = [universe |-> "build", present |-> {}, unreadable |-> {}]
       \/ \E files \in SUBSET FileIds([universe |-> "build"]),
             unreadable \in SUBSET DirIds([universe |-> "build"]) :
             fsys = [universe |-> "build",
                     present |-> DirIds([universe |-> "build"]) \cup files,
                     unreadable |-> unreadable]
    /\ site = NewSite(<<>>, sSiteUrl)
    /\ walk = [ran |-> FALSE]
    /\ units = <<>>
    /\ wg = 0
    /\ nextPage = 0
    /\ buildDir = {}

\* log.Fatal: the message is logged and the process ends
Fatal(stage) == "fatal_" \o stage

\* buildSite up to readContent: the templates and the configuration load, or
\* the build ends with a fatal error; a fresh Site is made
StartBuild ==
    /\ pc \in {"idle", "done"}
    /\ \E loaded \in BOOLEAN :
          pc' = IF loaded THEN "read" ELSE Fatal("config")
    /\ site' = NewSite(<<>>, sSiteUrl)
    /\ walk' = [ran |-> FALSE]
    /\ units' = <<>>
    /\ wg' = 0
    /\ nextPage' = 0
    /\ UNCHANGED <<inp, out, fsys, buildDir>>

\* site.readContent(...) and the test of its error
ReadContent ==
    /\ pc = "read"
    /\ \E r \in readContent(fsys, site) :
          /\ site' = r.site
          /\ walk' = [ran |-> TRUE, err |-> r.err, dirFailed |-> r.dirFailed,
                      panic |-> r.panic, discovered |-> r.discovered]
          /\ pc' = IF r.panic THEN "panic"
                   ELSE IF r.err THEN Fatal("content") ELSE "spawn"
          /\ units' = [i \in 1..Len(r.site.pages) |-> "none"]
    /\ nextPage' = 1
    /\ UNCHANGED <<inp, out, fsys, wg, buildDir>>

\* one round of the loop over site.pages: wg.Add(1) and the go statement
Spawn ==
    /\ pc = "spawn"
    /\ nextPage <= Len(site.pages)
    /\ wg' = wg + 1
    /\ units' = [units EXCEPT ![nextPage] = "start"]
    /\ nextPage' = nextPage + 1
    /\ UNCHANGED <<pc, inp, out, fsys, site, walk, buildDir>>

\* the loop over site.pages ends
SpawnEnd ==
    /\ pc = "spawn"
    /\ nextPage > Len(site.pages)
    /\ pc' = "wait"
    /\ UNCHANGED <<inp, out, fsys, site, walk, units, wg, nextPage, buildDir>>

\* the goroutine of page i up to os.Create in buildPage: the content is
\* parsed, the directory made and the destination opened for writing; or one
\* of the three fails, buildPage returns the error with no file opened, and
\* the goroutine logs it and calls wg.Done()
UnitCreate(i) ==
    /\ i \in DOMAIN units
    /\ units[i] = "start"
    /\ \E ok \in BOOLEAN :
          /\ units' = [units EXCEPT ![i] = IF ok THEN "open" ELSE "done"]
          /\ buildDir' = IF ok THEN buildDir \cup {Dest(site.pages[i])} ELSE buildDir
          /\ wg' = IF ok THEN wg ELSE wg - 1
    /\ UNCHANGED <<pc, inp, out, fsys, site, walk, nextPage>>

\* the goroutine of page i from the template lookup on: the template is
\* executed into the open file, or is missing or fails (what is written is
\* not modelled); the file is closed as buildPage returns, the goroutine logs
\* the error, if any, and calls wg.Done()
UnitExecute(i) ==
    /\ i \in DOMAIN units
    /\ units[i] = "open"
    /\ units' = [units EXCEPT ![i] = "done"]
    /\ wg' = wg - 1
    /\ UNCHANGED <<pc, inp, out, fsys, site, walk, nextPage, buildDir>>

WaitReturnsAtOnce == TRUE

\* wg.Wait() returns when the counter is zero
WaitReturns == wg = 0

Wait ==
    /\ pc = "wait"
    /\ WaitReturns
    /\ pc' = "sitemap"
    /\ UNCHANGED <<inp, out, fsys, site, walk, units, wg, nextPage, buildDir>>

\* site.createSitemap(): an error is logged and the build goes on
CreateSitemap ==
    /\ pc = "sitemap"
    /\ pc' = "rss"
    /\ \E ok \in BOOLEAN :
          buildDir' = IF ok
                      THEN buildDir \cup {Join(<<sBuild, sSitemapXml>>),
                                          Join(<<sBuild, sSitemapXsl>>)}
                      ELSE buildDir
    /\ UNCHANGED <<inp, out, fsys, site, walk, units, wg, nextPage>>

\* site.createRSSFeed(): an error is logged and the build goes on
CreateRSSFeed ==
    /\ pc = "rss"
    /\ pc' = "static"
    /\ \E ok \in BOOLEAN :
          buildDir' = IF ok THEN buildDir \cup {Join(<<sBuild, sFeedXml>>)}
                      ELSE buildDir
    /\ UNCHANGED <<inp, out, fsys, site, walk, units, wg, nextPage>>

\* copyDirRecursively(public, build) on the files of build/: the static
\* files are added, nothing is removed
copyDirRecursively(dir) == dir \cup {Join(<<sBuild, sStatic>>)}

\* the copy of public/ into build/, or the build ends with a fatal error
CopyStatic ==
    /\ pc = "static"
    /\ \E ok \in BOOLEAN :
          /\ pc' = IF ok THEN "done" ELSE Fatal("static")
          /\ buildDir' = IF ok THEN copyDirRecursively(buildDir) ELSE buildDir
    /\ UNCHANGED <<inp, out, fsys, site, walk, units, wg, nextPage>>

\* between two builds a content file is deleted
RemoveFile(e) ==
    /\ pc = "done"
    /\ e \in FileIds(fsys) \cap fsys.present
    /\ fsys' = [fsys EXCEPT !.present = @ \ {e}]
    /\ UNCHANGED <<pc, inp, out, site, walk, units, wg, nextPage, buildDir>>

\* between two builds a content file is written
WriteFile(e) ==
    /\ pc = "done"
    /\ e \in FileIds(fsys) \ fsys.present
    /\ Tree(fsys)[e].parent \in fsys.present
    /\ fsys' = [fsys EXCEPT !.present = @ \cup {e}]
    /\ UNCHANGED <<pc, inp, out, site, walk, units, wg, nextPage, buildDir>>

BuildNext ==
    \/ StartBuild
    \/ ReadContent
    \/ Spawn
    \/ SpawnEnd
    \/ \E i \in 1..Len(BuildTree) : UnitCreate(i)
    \/ \E i \in 1..Len(BuildTree) : UnitExecute(i)
    \/ Wait
    \/ CreateSitemap
    \/ CreateRSSFeed
    \/ CopyStatic
    \/ \E e \in 1..Len(BuildTree) : RemoveFile(e)
    \/ \E e \in 1..Len(BuildTree) : WriteFile(e)

Spec == BuildInit /\ [][BuildNext]_vars

(***************************************************************************)
(* readContent on trees of dated files                                     *)
(***************************************************************************)
SortInit ==
    /\ pc = "read"
    /\ inp = [op |-> "none"]
    /\ out = [op |-> "none"]
    /\ \E files \in SUBSET FileIds([universe |-> "sort"]) :
          fsys = [universe |-> "sort",
                  present |-> DirIds([universe |-> "sort"]) \cup files,
                  unreadable |-> {}]
    /\ site = NewSite(<<>>, sSiteUrl)
    /\ walk = [ran |-> FALSE]
    /\ units = <<>>
    /\ wg = 0
    /\ nextPage = 0
    /\ buildDir = {}

SpecSort == SortInit /\ [][ReadContent]_vars

(***************************************************************************)
(* Properties of the walk                                                  *)
(***************************************************************************)
\* the walk can reach entry e: it and the directories above it exist, and
\* the directories above it can be read
RECURSIVE Reachable(_, _)
Reachable(fs, e) ==
    /\ e \in fs.present
    /\ \/ Tree(fs)[e].parent = 0
       \/ /\ Tree(fs)[e].parent \notin fs.unreadable
          /\ Reachable(fs, Tree(fs)[e].parent)

UnclosedHeader(content) ==
    HasPrefix(content, frontMatter) /\ Index(SliceFrom(content, 3), frontMatter) = -1

ReachableFiles == {e \in FileIds(fsys) : Reachable(fsys, e)}

Registered(e) ==
    \E i \in DOMAIN site.pages : site.pages[i].Filepath = EntryPath(fsys, <<>>, e)

\* C1: a file whose header block is not closed is the only file its failure
\* leaves out: every other file the walk can reach is in pages, and the build
\* is not ended by it
C1_UnclosedHeaderSkipsOnlyThatFile ==
    (walk.ran /\ ~walk.panic /\ ~walk.dirFailed
        /\ \E e \in ReachableFiles : UnclosedHeader(Tree(fsys)[e].content)) =>
        /\ \A e \in ReachableFiles :
              ~UnclosedHeader(Tree(fsys)[e].content) => Registered(e)
        /\ ~walk.err

\* C4: a directory that cannot be read during the walk makes readContent
\* return an error and the build end as fatal
C4_DirectoryReadFailureIsFatal ==
    (walk.ran /\ ~walk.panic /\ walk.dirFailed) =>
        walk.err /\ pc \notin {"spawn", "wait", "sitemap", "rss", "static", "done"}

RECURSIVE InsertDescStable(_, _)
InsertDescStable(sorted, p) ==
    IF sorted = <<>> THEN <<p>>
    ELSE IF After(p.DatePublished, sorted[1].DatePublished)
         THEN <<p>> \o sorted
         ELSE <<sorted[1]>> \o InsertDescStable(Tail(sorted), p)

RECURSIVE StableSortDesc(_)
StableSortDesc(s) ==
    IF s = <<>> THEN <<>>
    ELSE InsertDescStable(StableSortDesc(SubSeq(s, 1, Len(s) - 1)), s[Len(s)])

Count(s, x) == Cardinality({i \in DOMAIN s : s[i] = x})

C2_ManifestsAfterAllUnits ==
    pc \in {"sitemap", "rss", "static"} =>
        /\ DOMAIN units = 1..Len(site.pages)
        /\ \A i \in DOMAIN units : units[i] = "done"

\* createSitemap is about to start after the units of two pages: one that
\* returned an error before it created its file, one that created it
C2_Witness ==
    /\ pc = "sitemap"
    /\ \A i \in DOMAIN units : units[i] = "done"
    /\ \E i, j \in DOMAIN site.pages :
          /\ Dest(site.pages[i]) \notin buildDir
          /\ Dest(site.pages[j]) \in buildDir

\* C3: no two units have the same destination open for writing at once
C3_NoTwoUnitsWriteOneFile ==
    \A i, j \in DOMAIN units :
        (i # j /\ units[i] = "open" /\ units[j] = "open") =>
            Dest(site.pages[i]) # Dest(site.pages[j])

ManifestAndStaticFiles ==
    {Join(<<sBuild, sSitemapXml>>), Join(<<sBuild, sSitemapXsl>>),
     Join(<<sBuild, sFeedXml>>), Join(<<sBuild, sStatic>>)}

\* C10: when the pages of a build are rendered, and when the build is done,
\* build/ holds page outputs only for the pages of that build's registry
C10_BuildDirHoldsOnlyLatestPages ==
    pc \in {"sitemap", "rss", "static", "done"} =>
        \A f \in buildDir \ ManifestAndStaticFiles :
            \E i \in DOMAIN site.pages : Dest(site.pages[i]) = f

====
